---- MODULE Spec2Model ----
(***************************************************************************)
(* The multi-backend tile access layer of nexustiles.py: the class-level   *)
(* registry NexusTileService.backends, the dataset_update thread started   *)
(* by every NexusTileService constructor, and the backend lookup           *)
(* __get_backend used by every query method; and the query methods        *)
(* themselves: the tile_data wrapper that fetches the data of the tiles a  *)
(* metadata query found, and the masking done by the get_tiles_* methods.  *)
(*                                                                         *)
(* Threads interleave between the statements of the Python source: one     *)
(* action is one statement (or one group of statements that touches the    *)
(* shared registry at most once).                                          *)
(***************************************************************************)
EXTENDS Integers, Sequences, FiniteSets, TLC

(***************************************************************************)
(* Bounds of the model.                                                    *)
(***************************************************************************)
\* number of NexusTileService instances constructed in the process
MaxServices == 2
\* number of request threads calling query methods
NumQueriers == 2
\* number of documents in one catalog response
MaxDocs == 1
\* number of binding objects ever allocated
MaxObjs == 3

\* number of documents in one catalog response of SpecCatalog
MaxCatalog == 2

Services == 1..MaxServices
Queriers == 1..NumQueriers

(***************************************************************************)
(* Registry keys.  None is Python's None; the alias is the literal         *)
(* '__nexusproto__'.                                                       *)
(***************************************************************************)
NoneKey == "None"
Alias == "__nexusproto__"
Datasets == {"A", "B"}
Keys == {NoneKey, Alias} \cup Datasets

\* store_type_s of a catalog document; "absent" is a document without the field
DocStoreTypes == {"absent", "zarr", "hdf5"}
\* a catalog document; a zarr document carries a 'config' that ZarrBackend accepts
Docs == [dataset_s : Datasets, store_type_s : DocStoreTypes]

RECURSIVE SeqsUpTo(_, _)
SeqsUpTo(S, n) ==
    IF n = 0 THEN {<<>>}
    ELSE LET shorter == SeqsUpTo(S, n - 1)
         IN  shorter \cup {Append(s, x) : s \in {t \in shorter : Len(t) = n - 1}, x \in S}

\* the responses solrcon.search('*:*') can give: one document per dataset, in any order
Catalogs ==
    {c \in SeqsUpTo(Docs, MaxDocs) :
        \A i, j \in 1..Len(c) : c[i].dataset_s = c[j].dataset_s => i = j}

\* the responses with up to MaxCatalog documents, one per dataset
FullCatalogs ==
    {c \in SeqsUpTo(Docs, MaxCatalog) :
        \A i, j \in 1..Len(c) : c[i].dataset_s = c[j].dataset_s => i = j}

(***************************************************************************)
(* Threads and locks.                                                      *)
(***************************************************************************)
NoThread == <<"none", 0>>
RefresherThread(s) == <<"dataset_update", s>>
QueryThread(q) == <<"query", q>>

(***************************************************************************)
(* Exceptions (webservice/webmodel/Exceptions.py) and return values.       *)
(***************************************************************************)
NexusProcessingException(reason) ==
    [kind |-> "raise", class |-> "NexusProcessingException", code |-> 500, reason |-> reason]

DatasetNotFoundException(reason) ==
    [kind |-> "raise", class |-> "DatasetNotFoundException", code |-> 404, reason |-> reason]

\* the builtin raised by a dict lookup or del of a missing key
KeyError == [kind |-> "raise", class |-> "KeyError"]

Return(backend) == [kind |-> "return", backend |-> backend]
NoResult == [kind |-> "none"]

\* no query method has been called
NoCall == [api |-> "none"]

\* a backend instance: every construction gives a distinct object
NexusprotoTileService(id) == [type |-> "NexusprotoTileService", id |-> id]
ZarrBackend(id) == [type |-> "ZarrBackend", id |-> id]

VARIABLES
    backends,   \* NexusTileService.backends: key -> reference to a binding object
    objs,       \* the binding objects {'backend': ..., 'up': ...}, by reference
    DS_LOCK,    \* holder of DS_LOCK
    SOLR_LOCK,  \* holder of SOLR_LOCK
    cpc,        \* position of each constructor call NexusTileService(...)
    rpc,        \* position of each dataset_update thread
    response,   \* _update_datasets: response.docs
    idx,        \* _update_datasets: position of the for loop over response.docs
    present_datasets,
    removed_datasets,
    qpc,        \* position of each request thread inside __get_backend
    dataset_s,  \* __get_backend: the argument
    b,          \* __get_backend: the local b (a reference), 0 before line 126
    attempts,   \* try_connect calls made by the current __get_backend call
    result,     \* outcome of the last __get_backend call of each request thread
    call,       \* the query method called on the service and its arguments
    ppc,        \* position of the call inside the method and its tile_data wrapper
    metadatastore_docs,      \* fetch_data_for_func: the documents func returned
    metadatastore_duration,
    cassandra_duration,
    tiles,      \* fetch_data_for_func / get_tiles_*: the list of Tile objects
    log,        \* the calls made so far on the stores, the callback and the masks
    outcome,    \* what the method call returned or raised
    icall,            \* the arguments of a query_insitu call
    ipc,              \* position of the query_insitu call
    params,           \* query_insitu: the dict params
    insitu_response,  \* query_insitu: the dict insitu_response
    next_page_url,    \* query_insitu: the URL of the next request
    requests,         \* the HTTP requests query_insitu has made, in order
    pages,            \* the JSON pages the in-situ API has answered, in order
    insitu_outcome    \* what query_insitu returned or raised

servingVars == <<backends, objs, DS_LOCK, SOLR_LOCK, cpc, rpc, response, idx,
                 present_datasets, removed_datasets, qpc, dataset_s, b, attempts, result>>
pipelineVars == <<call, ppc, metadatastore_docs, metadatastore_duration,
                  cassandra_duration, tiles, log, outcome>>
insituVars == <<icall, ipc, params, insitu_response, next_page_url, requests, pages,
                insitu_outcome>>
vars == <<servingVars, pipelineVars, insituVars>>

registry == <<backends, objs>>
locks == <<DS_LOCK, SOLR_LOCK>>
refresherLocals == <<response, idx, present_datasets, removed_datasets>>
refresherVars == <<rpc, response, idx, present_datasets, removed_datasets>>
querierVars == <<qpc, dataset_s, b, attempts, result>>

Bound(k) == k \in DOMAIN backends

\* d[k] = v on a Python dict
DictSet(d, k, v) == [x \in DOMAIN d \cup {k} |-> IF x = k THEN v ELSE d[x]]
\* del d[k]
DictDel(d, k) == [x \in DOMAIN d \ {k} |-> d[x]]

\* a binding that is created not-live: {'backend': backend, 'up': False}
NewBinding_Down(backend) == [backend |-> backend, up |-> FALSE]

\* a new dict {'backend': backend, 'up': True}
NewBinding(backend) == [backend |-> backend, up |-> TRUE]

(***************************************************************************)
(* The state after the first NexusTileService() has returned: the default  *)
(* binding is seeded under None and aliased, and the first dataset_update  *)
(* thread is started.                                                      *)
(***************************************************************************)
InitService ==
    /\ objs = <<NewBinding(NexusprotoTileService(1))>>
    /\ backends = (NoneKey :> 1) @@ (Alias :> 1)
    /\ DS_LOCK = NoThread
    /\ SOLR_LOCK = NoThread
    /\ cpc = [s \in Services |-> IF s = 1 THEN "done" ELSE "new"]
    /\ rpc = [s \in Services |-> IF s = 1 THEN "outside" ELSE "unstarted"]
    /\ response = [s \in Services |-> <<>>]
    /\ idx = [s \in Services |-> 1]
    /\ present_datasets = [s \in Services |-> {}]
    /\ removed_datasets = [s \in Services |-> {}]
    /\ qpc = [q \in Queriers |-> "idle"]
    /\ dataset_s = [q \in Queriers |-> NoneKey]
    /\ b = [q \in Queriers |-> 0]
    /\ attempts = [q \in Queriers |-> 0]
    /\ result = [q \in Queriers |-> NoResult]

\* the locals of a query method that has not reached its first statement
InitLocals ==
    /\ metadatastore_docs = <<>>
    /\ metadatastore_duration = 0
    /\ cassandra_duration = 0
    /\ tiles = <<>>
    /\ log = <<>>
    /\ outcome = NoResult

\* Python's None, a str and an empty dict
PyNone == [py |-> "NoneType"]
PyStr(s) == [py |-> "str", s |-> s]
EmptyDict == [k \in {} |-> PyNone]

\* query_insitu has not been called
InsituIdle ==
    /\ icall = NoCall
    /\ ipc = "idle"
    /\ params = EmptyDict
    /\ insitu_response = EmptyDict
    /\ next_page_url = PyNone
    /\ requests = <<>>
    /\ pages = <<>>
    /\ insitu_outcome = NoResult

Init ==
    /\ InitService
    /\ call = NoCall
    /\ ppc = "idle"
    /\ InitLocals
    /\ InsituIdle

(***************************************************************************)
(* NexusTileService.__init__, lines 108-117.  Neither write takes DS_LOCK. *)
(***************************************************************************)
\* line 108: backends[None] = {"backend": NexusprotoTileService(...), 'up': True}
Init_SeedDefault(s) ==
    /\ cpc[s] = "new"
    /\ s > 1 => cpc[s - 1] # "new"
    /\ Len(objs) < MaxObjs
    /\ objs' = Append(objs, NewBinding(NexusprotoTileService(Len(objs) + 1)))
    /\ backends' = DictSet(backends, NoneKey, Len(objs) + 1)
    /\ cpc' = [cpc EXCEPT ![s] = "alias"]
    /\ UNCHANGED <<locks, refresherVars, querierVars, pipelineVars, insituVars>>

\* line 109: backends['__nexusproto__'] = backends[None]; line 117: start the thread
Init_AliasAndStart(s) ==
    /\ cpc[s] = "alias"
    /\ IF Bound(NoneKey)
       THEN /\ backends' = DictSet(backends, Alias, backends[NoneKey])
            /\ cpc' = [cpc EXCEPT ![s] = "done"]
            /\ rpc' = [rpc EXCEPT ![s] = "outside"]
       ELSE \* KeyError leaves the constructor; no thread is started
            /\ cpc' = [cpc EXCEPT ![s] = "raised"]
            /\ UNCHANGED <<backends, rpc>>
    /\ UNCHANGED <<objs, locks, refresherLocals, querierVars, pipelineVars, insituVars>>

(***************************************************************************)
(* The dataset_update thread, lines 111-115, and _update_datasets,          *)
(* lines 138-184.  An exception raised inside the cycle leaves both with    *)
(* blocks (releasing the locks) and the while loop: the thread ends.        *)
(***************************************************************************)
\* line 113 without the lock: the cycle starts whoever holds DS_LOCK
Update_AcquireDS_NoLock(s) ==
    /\ rpc[s] = "outside"
    /\ DS_LOCK' = RefresherThread(s)
    /\ rpc' = [rpc EXCEPT ![s] = "solr"]
    /\ UNCHANGED <<registry, SOLR_LOCK, cpc, refresherLocals, querierVars, pipelineVars, insituVars>>

\* line 113: with DS_LOCK.  The thread is "outside" a cycle from its start and
\* from the release of DS_LOCK through sleep(3600) until it takes DS_LOCK again.
Update_AcquireDS(s) ==
    /\ rpc[s] = "outside"
    /\ DS_LOCK = NoThread
    /\ DS_LOCK' = RefresherThread(s)
    /\ rpc' = [rpc EXCEPT ![s] = "solr"]
    /\ UNCHANGED <<registry, SOLR_LOCK, cpc, refresherLocals, querierVars, pipelineVars, insituVars>>

\* lines 139-146: read the configuration, then with SOLR_LOCK
Update_AcquireSolr(s) ==
    /\ rpc[s] = "solr"
    /\ SOLR_LOCK = NoThread
    /\ SOLR_LOCK' = RefresherThread(s)
    /\ rpc' = [rpc EXCEPT ![s] = "search"]
    /\ UNCHANGED <<registry, DS_LOCK, cpc, refresherLocals, querierVars, pipelineVars, insituVars>>

\* lines 147-157: the catalog query answers
Update_SearchOk(s) ==
    /\ rpc[s] = "search"
    /\ \E docs \in Catalogs : response' = [response EXCEPT ![s] = docs]
    /\ idx' = [idx EXCEPT ![s] = 1]
    /\ SOLR_LOCK' = NoThread
    /\ rpc' = [rpc EXCEPT ![s] = "loop"]
    /\ UNCHANGED <<registry, DS_LOCK, cpc, present_datasets, removed_datasets, querierVars, pipelineVars, insituVars>>

\* lines 147-157 answering with one of the longer catalogs of SpecCatalog
Update_SearchOkFull(s) ==
    /\ rpc[s] = "search"
    /\ \E docs \in FullCatalogs : response' = [response EXCEPT ![s] = docs]
    /\ idx' = [idx EXCEPT ![s] = 1]
    /\ SOLR_LOCK' = NoThread
    /\ rpc' = [rpc EXCEPT ![s] = "loop"]
    /\ UNCHANGED <<registry, DS_LOCK, cpc, present_datasets, removed_datasets, querierVars, pipelineVars, insituVars>>

\* the locals of _update_datasets are gone when the call is left
Update_Leave(s) ==
    /\ response' = [response EXCEPT ![s] = <<>>]
    /\ idx' = [idx EXCEPT ![s] = 1]
    /\ present_datasets' = [present_datasets EXCEPT ![s] = {}]
    /\ removed_datasets' = [removed_datasets EXCEPT ![s] = {}]

\* an exception leaves _update_datasets, "with DS_LOCK" and the while loop
Update_Raise(s) ==
    /\ rpc' = [rpc EXCEPT ![s] = "dead"]
    /\ DS_LOCK' = NoThread
    /\ Update_Leave(s)

\* lines 150-155: pysolr raises (index unreachable, malformed response)
Update_SearchRaises(s) ==
    /\ rpc[s] = "search"
    /\ SOLR_LOCK' = NoThread
    /\ Update_Raise(s)
    /\ UNCHANGED <<registry, cpc, querierVars, pipelineVars, insituVars>>

\* line 161: dataset.get('store_type_s', 'nexusproto')
StoreType(doc) ==
    IF doc.store_type_s = "absent" THEN "nexusproto" ELSE doc.store_type_s

\* the loop iteration with lines 165-166 left out: a dataset that is already
\* bound is bound again from the type its document declares
Update_ProcessDoc_Rebind(s) ==
    /\ rpc[s] = "loop"
    /\ idx[s] <= Len(response[s])
    /\ LET dataset == response[s][idx[s]]
           d_id == dataset.dataset_s
           store_type == StoreType(dataset)
           continue == /\ idx' = [idx EXCEPT ![s] = @ + 1]
                       /\ present_datasets' = [present_datasets EXCEPT ![s] = @ \cup {d_id}]
                       /\ UNCHANGED <<rpc, DS_LOCK, response, removed_datasets>>
       IN  IF store_type = "nexus_proto" \/ store_type = "nexusproto"
           THEN IF Bound(NoneKey)
                THEN /\ backends' = DictSet(backends, d_id, backends[NoneKey])
                     /\ UNCHANGED objs
                     /\ continue
                ELSE Update_Raise(s) /\ UNCHANGED registry
           ELSE IF store_type = "zarr"
           THEN /\ Len(objs) < MaxObjs
                /\ objs' = Append(objs, NewBinding(ZarrBackend(Len(objs) + 1)))
                /\ backends' = DictSet(backends, d_id, Len(objs) + 1)
                /\ continue
           ELSE continue /\ UNCHANGED registry
    /\ UNCHANGED <<SOLR_LOCK, cpc, querierVars, pipelineVars, insituVars>>

\* the loop iteration with line 178 raising instead of logging
Update_ProcessDoc_Abort(s) ==
    /\ rpc[s] = "loop"
    /\ idx[s] <= Len(response[s])
    /\ LET dataset == response[s][idx[s]]
           d_id == dataset.dataset_s
           store_type == StoreType(dataset)
           continue == /\ idx' = [idx EXCEPT ![s] = @ + 1]
                       /\ present_datasets' = [present_datasets EXCEPT ![s] = @ \cup {d_id}]
                       /\ UNCHANGED <<rpc, DS_LOCK, response, removed_datasets>>
       IN  IF Bound(d_id)
           THEN continue /\ UNCHANGED registry
           ELSE IF store_type = "nexus_proto" \/ store_type = "nexusproto"
           THEN IF Bound(NoneKey)
                THEN /\ backends' = DictSet(backends, d_id, backends[NoneKey])
                     /\ UNCHANGED objs
                     /\ continue
                ELSE Update_Raise(s) /\ UNCHANGED registry
           ELSE IF store_type = "zarr"
           THEN /\ Len(objs) < MaxObjs
                /\ objs' = Append(objs, NewBinding(ZarrBackend(Len(objs) + 1)))
                /\ backends' = DictSet(backends, d_id, Len(objs) + 1)
                /\ continue
           ELSE Update_Raise(s) /\ UNCHANGED registry
    /\ UNCHANGED <<SOLR_LOCK, cpc, querierVars, pipelineVars, insituVars>>

\* lines 159-178: one iteration of the loop over response.docs
Update_ProcessDoc(s) ==
    /\ rpc[s] = "loop"
    /\ idx[s] <= Len(response[s])
    /\ LET dataset == response[s][idx[s]]
           d_id == dataset.dataset_s
           store_type == StoreType(dataset)
           continue == /\ idx' = [idx EXCEPT ![s] = @ + 1]
                       /\ present_datasets' = [present_datasets EXCEPT ![s] = @ \cup {d_id}]
                       /\ UNCHANGED <<rpc, DS_LOCK, response, removed_datasets>>
       IN  IF Bound(d_id)
           THEN continue /\ UNCHANGED registry
           ELSE IF store_type = "nexus_proto" \/ store_type = "nexusproto"
           THEN IF Bound(NoneKey)
                THEN /\ backends' = DictSet(backends, d_id, backends[NoneKey])
                     /\ UNCHANGED objs
                     /\ continue
                ELSE \* line 170: KeyError on backends[None]
                     Update_Raise(s) /\ UNCHANGED registry
           ELSE IF store_type = "zarr"
           THEN /\ Len(objs) < MaxObjs
                /\ objs' = Append(objs, NewBinding(ZarrBackend(Len(objs) + 1)))
                /\ backends' = DictSet(backends, d_id, Len(objs) + 1)
                /\ continue
           ELSE \* line 178: unsupported backend, logged
                continue /\ UNCHANGED registry
    /\ UNCHANGED <<SOLR_LOCK, cpc, querierVars, pipelineVars, insituVars>>

\* line 180: removed_datasets = set(backends.keys()).difference(present_datasets)
Update_ComputeRemoved(s) ==
    /\ rpc[s] = "loop"
    /\ idx[s] > Len(response[s])
    /\ removed_datasets' = [removed_datasets EXCEPT ![s] = DOMAIN backends \ present_datasets[s]]
    /\ rpc' = [rpc EXCEPT ![s] = "del"]
    /\ UNCHANGED <<registry, locks, cpc, response, idx, present_datasets, querierVars, pipelineVars, insituVars>>

\* lines 182-184: one iteration of the loop over removed_datasets (a set: any order)
Update_RemoveDataset(s) ==
    /\ rpc[s] = "del"
    /\ \E dataset \in removed_datasets[s] :
          IF Bound(dataset)
          THEN /\ backends' = DictDel(backends, dataset)
               /\ removed_datasets' = [removed_datasets EXCEPT ![s] = @ \ {dataset}]
               /\ UNCHANGED <<rpc, DS_LOCK, response, idx, present_datasets>>
          ELSE Update_Raise(s) /\ UNCHANGED backends
    /\ UNCHANGED <<objs, SOLR_LOCK, cpc, querierVars, pipelineVars, insituVars>>

\* lines 114-115: _update_datasets returns, DS_LOCK is released, sleep(3600) starts
Update_Release(s) ==
    /\ rpc[s] = "del"
    /\ removed_datasets[s] = {}
    /\ DS_LOCK' = NoThread
    /\ rpc' = [rpc EXCEPT ![s] = "outside"]
    /\ Update_Leave(s)
    /\ UNCHANGED <<registry, SOLR_LOCK, cpc, querierVars, pipelineVars, insituVars>>

(***************************************************************************)
(* __get_backend, lines 121-136, called by a request thread at the start   *)
(* of every query method.  It takes no lock.                               *)
(***************************************************************************)
GetBackend_Raise(q, exc) ==
    /\ result' = [result EXCEPT ![q] = exc]
    /\ qpc' = [qpc EXCEPT ![q] = "idle"]
    /\ b' = [b EXCEPT ![q] = 0]

\* the call with lines 123-124 left out: the lookup of line 126 is always tried
GetBackend_MembershipTest_NoTest(q) ==
    /\ qpc[q] = "idle"
    /\ \E d \in Keys :
          /\ dataset_s' = [dataset_s EXCEPT ![q] = d]
          /\ attempts' = [attempts EXCEPT ![q] = 0]
          /\ qpc' = [qpc EXCEPT ![q] = "lookup"]
          /\ result' = [result EXCEPT ![q] = NoResult]
          /\ UNCHANGED b
    /\ UNCHANGED <<registry, locks, cpc, refresherVars, pipelineVars, insituVars>>

\* the call and lines 123-124: if dataset_s not in NexusTileService.backends: raise
GetBackend_MembershipTest(q) ==
    /\ qpc[q] = "idle"
    /\ \E d \in Keys :
          /\ dataset_s' = [dataset_s EXCEPT ![q] = d]
          /\ attempts' = [attempts EXCEPT ![q] = 0]
          /\ IF ~Bound(d)
             THEN GetBackend_Raise(q, DatasetNotFoundException("not currently loaded/ingested"))
             ELSE /\ qpc' = [qpc EXCEPT ![q] = "lookup"]
                  /\ result' = [result EXCEPT ![q] = NoResult]
                  /\ UNCHANGED b
    /\ UNCHANGED <<registry, locks, cpc, refresherVars, pipelineVars, insituVars>>

\* line 126: b = NexusTileService.backends[dataset_s]
GetBackend_Lookup(q) ==
    /\ qpc[q] = "lookup"
    /\ IF Bound(dataset_s[q])
       THEN /\ b' = [b EXCEPT ![q] = backends[dataset_s[q]]]
            /\ qpc' = [qpc EXCEPT ![q] = "up"]
            /\ UNCHANGED result
       ELSE GetBackend_Raise(q, KeyError)
    /\ UNCHANGED <<registry, locks, cpc, refresherVars, dataset_s, attempts, pipelineVars, insituVars>>

\* line 136: return b['backend'] (the 'backend' entry of a binding is never reassigned)
GetBackend_Return(q) ==
    /\ result' = [result EXCEPT ![q] = Return(objs[b[q]].backend)]
    /\ qpc' = [qpc EXCEPT ![q] = "idle"]
    /\ b' = [b EXCEPT ![q] = 0]

\* line 128: if not b['up'], and line 136 when it is up
GetBackend_ReadUp(q) ==
    /\ qpc[q] = "up"
    /\ IF objs[b[q]].up
       THEN GetBackend_Return(q)
       ELSE /\ qpc' = [qpc EXCEPT ![q] = "connect"]
            /\ UNCHANGED <<b, result>>
    /\ UNCHANGED <<registry, locks, cpc, refresherVars, dataset_s, attempts, pipelineVars, insituVars>>

\* lines 129-132 with one more try_connect before giving up
GetBackend_ConnectFails_Retry(q) ==
    /\ qpc[q] = "connect"
    /\ attempts' = [attempts EXCEPT ![q] = @ + 1]
    /\ IF attempts[q] = 0
       THEN UNCHANGED <<qpc, b, result>>
       ELSE GetBackend_Raise(q, NexusProcessingException("currently unavailable"))
    /\ UNCHANGED <<registry, locks, cpc, refresherVars, dataset_s, pipelineVars, insituVars>>

\* lines 129-132 raising the error of line 124
GetBackend_ConnectFails_NotFound(q) ==
    /\ qpc[q] = "connect"
    /\ attempts' = [attempts EXCEPT ![q] = @ + 1]
    /\ GetBackend_Raise(q, DatasetNotFoundException("currently unavailable"))
    /\ UNCHANGED <<registry, locks, cpc, refresherVars, dataset_s, pipelineVars, insituVars>>

\* lines 129-132: success = b['backend'].try_connect() gives False
GetBackend_ConnectFails(q) ==
    /\ qpc[q] = "connect"
    /\ attempts' = [attempts EXCEPT ![q] = @ + 1]
    /\ GetBackend_Raise(q, NexusProcessingException("currently unavailable"))
    /\ UNCHANGED <<registry, locks, cpc, refresherVars, dataset_s, pipelineVars, insituVars>>

\* lines 129-133: success = b['backend'].try_connect() gives True
GetBackend_ConnectOk(q) ==
    /\ qpc[q] = "connect"
    /\ attempts' = [attempts EXCEPT ![q] = @ + 1]
    /\ qpc' = [qpc EXCEPT ![q] = "mark"]
    /\ UNCHANGED <<registry, locks, cpc, refresherVars, dataset_s, b, result, pipelineVars, insituVars>>

\* line 134: NexusTileService.backends[dataset_s]['up'] = True, then line 136
GetBackend_MarkUp(q) ==
    /\ qpc[q] = "mark"
    /\ IF Bound(dataset_s[q])
       THEN /\ objs' = [objs EXCEPT ![backends[dataset_s[q]]].up = TRUE]
            /\ GetBackend_Return(q)
       ELSE GetBackend_Raise(q, KeyError) /\ UNCHANGED objs
    /\ UNCHANGED <<backends, locks, cpc, refresherVars, dataset_s, attempts, pipelineVars, insituVars>>

(***************************************************************************)
(* A backend that loses its connection has its binding marked down.  The   *)
(* registry is a public class attribute; nothing in nexustiles.py clears   *)
(* 'up', the write comes from outside it.                                  *)
(***************************************************************************)
MarkDown(k) ==
    /\ Bound(k)
    /\ objs[backends[k]].up
    /\ objs' = [objs EXCEPT ![backends[k]].up = FALSE]
    /\ UNCHANGED <<backends, locks, cpc, refresherVars, querierVars, pipelineVars, insituVars>>

(***************************************************************************)
(* The query methods.  A method decorated with tile_data (lines 55-83)     *)
(* asks the metadata store for documents, turns them into Tile objects,    *)
(* fetches their data, reports to the metrics callback and returns the     *)
(* tiles; the get_tiles_* methods (lines 255-336) then mask them.          *)
(***************************************************************************)
\* number of documents one metadata query returns
MaxTiles == 2
\* largest latitude / time of the sample grid
MaxLat == 2
MaxTime == 2

TileIds == {"t1", "t2"}
Lats == 0..MaxLat
Lons == 0..1
Times == 0..MaxTime

\* the metadata store's document of a tile: id, owning dataset, index bounds
TileDoc(id) ==
    IF id = "t1"
    THEN [id |-> id, dataset_s |-> "A",
          tile_min_lat |-> 0, tile_max_lat |-> 1, tile_min_lon |-> 0, tile_max_lon |-> 1]
    ELSE [id |-> id, dataset_s |-> "B",
          tile_min_lat |-> 1, tile_max_lat |-> 2, tile_min_lon |-> 0, tile_max_lon |-> 1]

\* what a find_* call on a backend can return; the same tile may come twice
IndexResponses == SeqsUpTo({TileDoc(id) : id \in TileIds}, MaxTiles)

\* a Tile() without data: latitudes, longitudes, times and data are None
NoData == [populated |-> FALSE]

\* the sample points of a tile holding data: the (latitude, longitude, time)
\* triples that are not masked out
Data(samples) == [populated |-> TRUE, samples |-> samples]

\* line 426-537: one Tile per document, index fields only
DocToTile(store_doc) ==
    [tile_id |-> store_doc.id,
     dataset |-> store_doc.dataset_s,
     bbox |-> [min_lat |-> store_doc.tile_min_lat, max_lat |-> store_doc.tile_max_lat,
               min_lon |-> store_doc.tile_min_lon, max_lon |-> store_doc.tile_max_lon],
     data |-> NoData]

MetadataStoreDocsToTiles(store_docs) ==
    [i \in 1..Len(store_docs) |-> DocToTile(store_docs[i])]

\* the data store keys its tiles by UUID; str() gives the id the index uses
UUID(id) == [uuid |-> id]
Str(uuid) == uuid.uuid

\* the tile data the store holds for an id: a grid over the tile's index bounds
\* and two consecutive time steps
StoredTileData(id) ==
    LET doc == TileDoc(id)
        first == IF id = "t1" THEN 0 ELSE 1
    IN  [tile_id |-> UUID(id),
         samples |-> {<<lat, lon, time>> : lat \in doc.tile_min_lat..doc.tile_max_lat,
                                           lon \in doc.tile_min_lon..doc.tile_max_lon,
                                           time \in first..(first + 1)}]

\* self._datastore, the one data store fetch_data_for_tiles calls (line 404)
DataStore == [type |-> "self._datastore", id |-> 0]

\* fetch_nexus_tiles(*ids) on a store holding the ids in held
FetchNexusTiles(held, ids) == {StoredTileData(id) : id \in ids \cap held}

\* the builtin exceptions a query method can end with
MissingData(ids) == [kind |-> "raise", class |-> "Exception", reason |-> "Missing data for tile_id(s)", ids |-> ids]
TypeError == [kind |-> "raise", class |-> "TypeError"]
StoreError == [kind |-> "raise", class |-> "StoreError"]
CallbackError == [kind |-> "raise", class |-> "CallbackError"]
ReturnTiles(ts) == [kind |-> "return", tiles |-> ts]

\* lines 412-421 without the del of line 422: an entry stays in the lookup map
RECURSIVE Populate_NoDel(_, _, _)
Populate_NoDel(ts, i, tile_data_by_id) ==
    IF i > Len(ts) THEN [tiles |-> ts, exc |-> NoResult]
    ELSE IF ts[i].tile_id \notin DOMAIN tile_data_by_id
    THEN [tiles |-> ts, exc |-> KeyError]
    ELSE Populate_NoDel([ts EXCEPT ![i].data = Data(tile_data_by_id[ts[i].tile_id].samples)],
                        i + 1,
                        tile_data_by_id)

\* lines 412-422: the loop over the tiles from position i on
RECURSIVE Populate(_, _, _)
Populate(ts, i, tile_data_by_id) ==
    IF i > Len(ts) THEN [tiles |-> ts, exc |-> NoResult]
    ELSE IF ts[i].tile_id \notin DOMAIN tile_data_by_id
    THEN \* line 413: KeyError on tile_data_by_id[a_tile.tile_id]
         [tiles |-> ts, exc |-> KeyError]
    ELSE Populate([ts EXCEPT ![i].data = Data(tile_data_by_id[ts[i].tile_id].samples)],
                  i + 1,
                  DictDel(tile_data_by_id, ts[i].tile_id))

\* fetch_data_for_tiles without the check of lines 408-410: a tile whose data is
\* missing is left as it is
FetchDataForTiles_Partial(ts, matched_tile_data) ==
    LET tile_data_by_id ==
            [k \in {Str(a.tile_id) : a \in matched_tile_data} |->
                CHOOSE a \in matched_tile_data : Str(a.tile_id) = k]
    IN  [tiles |-> [i \in 1..Len(ts) |->
                      IF ts[i].tile_id \in DOMAIN tile_data_by_id
                      THEN [ts[i] EXCEPT !.data = Data(tile_data_by_id[ts[i].tile_id].samples)]
                      ELSE ts[i]],
         exc |-> NoResult]

\* fetch_data_for_tiles with the check of lines 408-410 moved behind the loop:
\* the tiles whose data came are populated before the Exception is raised
FetchDataForTiles_CheckAfter(ts, matched_tile_data) ==
    LET nexus_tile_ids == {ts[i].tile_id : i \in 1..Len(ts)}
        tile_data_by_id ==
            [k \in {Str(a.tile_id) : a \in matched_tile_data} |->
                CHOOSE a \in matched_tile_data : Str(a.tile_id) = k]
        missing_data == nexus_tile_ids \ DOMAIN tile_data_by_id
    IN  IF missing_data # {}
        THEN [tiles |-> FetchDataForTiles_Partial(ts, matched_tile_data).tiles,
              exc |-> MissingData(missing_data)]
        ELSE Populate(ts, 1, tile_data_by_id)

\* lines 403-424: fetch_data_for_tiles given what fetch_nexus_tiles returned
FetchDataForTiles(ts, matched_tile_data) ==
    LET nexus_tile_ids == {ts[i].tile_id : i \in 1..Len(ts)}
        tile_data_by_id ==
            [k \in {Str(a.tile_id) : a \in matched_tile_data} |->
                CHOOSE a \in matched_tile_data : Str(a.tile_id) = k]
        missing_data == nexus_tile_ids \ DOMAIN tile_data_by_id
    IN  IF missing_data # {}
        THEN [tiles |-> ts, exc |-> MissingData(missing_data)]
        ELSE Populate(ts, 1, tile_data_by_id)

\* line 65 with default_fetch taken as False
FetchRequested_DefaultOff(kwargs, default_fetch) ==
    "fetch_data" \in DOMAIN kwargs /\ kwargs["fetch_data"]

\* line 65: is the data of the tiles to be fetched
FetchRequested(kwargs, default_fetch) ==
    \/ ("fetch_data" \in DOMAIN kwargs /\ kwargs["fetch_data"])
    \/ ("fetch_data" \notin DOMAIN kwargs /\ default_fetch)

\* line 71 without "is not None": a metrics_callback=None is called as well
HasCallback_AnyValue(kwargs) == "metrics_callback" \in DOMAIN kwargs

\* line 71: is there a callback to report to
HasCallback(kwargs) ==
    "metrics_callback" \in DOMAIN kwargs /\ kwargs["metrics_callback"] # "None"

(***************************************************************************)
(* Masking (mask_tiles_to_bbox, mask_tiles_to_polygon,                     *)
(* mask_tiles_to_time_range and the two combined masks) is inherited by    *)
(* NexusTileService: a mask takes away the sample points of every tile     *)
(* that lie outside the window and keeps the tile, however few points are  *)
(* left.  Windows are closed on both sides.                                *)
(***************************************************************************)
InBBox(min_lat, max_lat, min_lon, max_lon, p) ==
    min_lat <= p[1] /\ p[1] <= max_lat /\ min_lon <= p[2] /\ p[2] <= max_lon

\* a polygon is given by the grid points it contains
InPolygon(polygon, p) == <<p[1], p[2]>> \in polygon

InTimeRange(start_time, end_time, p) == start_time <= p[3] /\ p[3] <= end_time

\* the tiles ts with only the samples in keep left in those that hold data
Masked(ts, keep) ==
    [i \in 1..Len(ts) |->
        IF ts[i].data.populated
        THEN [ts[i] EXCEPT !.data = Data(@.samples \cap keep)]
        ELSE ts[i]]

Grid == Lats \X Lons \X ((-1)..(MaxTime + 1))

mask_tiles_to_bbox(min_lat, max_lat, min_lon, max_lon, ts) ==
    Masked(ts, {p \in Grid : InBBox(min_lat, max_lat, min_lon, max_lon, p)})

mask_tiles_to_polygon(polygon, ts) ==
    Masked(ts, {p \in Grid : InPolygon(polygon, p)})

mask_tiles_to_time_range(start_time, end_time, ts) ==
    Masked(ts, {p \in Grid : InTimeRange(start_time, end_time, p)})

mask_tiles_to_bbox_and_time(min_lat, max_lat, min_lon, max_lon, start_time, end_time, ts) ==
    Masked(ts, {p \in Grid : /\ InBBox(min_lat, max_lat, min_lon, max_lon, p)
                             /\ InTimeRange(start_time, end_time, p)})

mask_tiles_to_polygon_and_time(polygon, start_time, end_time, ts) ==
    Masked(ts, {p \in Grid : /\ InPolygon(polygon, p)
                             /\ InTimeRange(start_time, end_time, p)})

(***************************************************************************)
(* The calls a client makes.                                               *)
(***************************************************************************)
\* the keyword arguments that reach the tile_data wrapper through **kwargs
EmptyKwargs == [k \in {} |-> TRUE]
FetchDataKwargs == {EmptyKwargs} \cup {[fetch_data |-> v] : v \in BOOLEAN}
\* a callback is None, returns ("ok") or raises an Exception ("raises")
MetricsCallbackKwargs ==
    {EmptyKwargs} \cup {[metrics_callback |-> c] : c \in {"None", "ok", "raises"}}
Kwargs == {f @@ c : f \in FetchDataKwargs, c \in MetricsCallbackKwargs}

BBoxes ==
    {[min_lat |-> 0, max_lat |-> 1, min_lon |-> 0, max_lon |-> 1],
     [min_lat |-> 1, max_lat |-> MaxLat, min_lon |-> 0, max_lon |-> 0],
     [min_lat |-> MaxLat, max_lat |-> MaxLat, min_lon |-> 1, max_lon |-> 1]}
Polygons == {{<<0, 0>>, <<1, 0>>, <<1, 1>>}, {<<MaxLat, 1>>}}
\* (start_time, end_time): the default, a range, an instant, a reversed range
\* and a range that starts before the epoch
TimeRanges == {<<0, -1>>, <<0, 1>>, <<1, 1>>, <<MaxTime, 1>>, <<-1, 1>>}

NoBBox == [min_lat |-> 0, max_lat |-> 0, min_lon |-> 0, max_lon |-> 0]

BoxRangeApis == {"find_tiles_in_box", "get_tiles_bounded_by_box"}
PolygonRangeApis == {"get_tiles_bounded_by_polygon"}
MetadataApis == {"get_tiles_by_metadata"}
BoxAtTimeApis == {"get_tiles_bounded_by_box_at_time", "get_boundary_tiles_at_time"}
PolygonAtTimeApis == {"get_tiles_bounded_by_polygon_at_time"}
BoundingBoxApis == {"get_bounding_box"}

Call(api, kwargs, bbox, polygon, start_time, end_time, time) ==
    [api |-> api, kwargs |-> kwargs, bbox |-> bbox, polygon |-> polygon,
     start_time |-> start_time, end_time |-> end_time, time |-> time]

Calls ==
    {Call(a, k, bb, {}, r[1], r[2], 0) :
        a \in BoxRangeApis, k \in Kwargs, bb \in BBoxes, r \in TimeRanges}
    \cup {Call(a, k, NoBBox, pg, r[1], r[2], 0) :
        a \in PolygonRangeApis, k \in Kwargs, pg \in Polygons, r \in TimeRanges}
    \cup {Call(a, k, NoBBox, {}, r[1], r[2], 0) :
        a \in MetadataApis, k \in Kwargs, r \in TimeRanges}
    \cup {Call(a, k, bb, {}, 0, -1, t) :
        a \in BoxAtTimeApis, k \in Kwargs, bb \in BBoxes, t \in Times}
    \cup {Call(a, k, NoBBox, pg, 0, -1, t) :
        a \in PolygonAtTimeApis, k \in Kwargs, pg \in Polygons, t \in Times}
    \* line 351: get_bounding_box calls find_tiles_by_id with fetch_data=False
    \cup {Call(a, [fetch_data |-> FALSE], NoBBox, {}, 0, -1, 0) : a \in BoundingBoxApis}

\* the state in which a client has just called a query method
InitPipeline ==
    /\ InitService
    /\ call \in Calls
    /\ ppc = "query"
    /\ InitLocals
    /\ InsituIdle

(***************************************************************************)
(* fetch_data_for_func, lines 58-79: the wrapper tile_data() puts around   *)
(* every find_* method.                                                    *)
(***************************************************************************)
\* what datetime.now() differences can give, in seconds
Durations == {0, 1}

\* the find_* method a query method starts with
FindMethod(api) ==
    CASE api = "find_tiles_in_box" -> "find_tiles_in_box"
      [] api = "get_tiles_bounded_by_box" -> "find_tiles_in_box"
      [] api = "get_tiles_bounded_by_polygon" -> "find_tiles_in_polygon"
      [] api = "get_tiles_by_metadata" -> "find_tiles_by_metadata"
      [] api = "get_tiles_bounded_by_box_at_time" -> "find_all_tiles_in_box_at_time"
      [] api = "get_tiles_bounded_by_polygon_at_time" -> "find_all_tiles_in_polygon_at_time"
      [] api = "get_boundary_tiles_at_time" -> "find_all_boundary_tiles_at_time"
      [] api = "get_bounding_box" -> "find_tiles_by_id"

\* get_tiles_by_metadata without line 266: it returns what the find returned
AfterFind_MetadataUnmasked(api) ==
    IF api = "find_tiles_in_box" THEN "done"
    ELSE IF api \in BoxRangeApis \cup PolygonRangeApis THEN "mask_geometry"
    ELSE IF api \in MetadataApis THEN "done"
    ELSE IF api \in BoundingBoxApis THEN "bounds"
    ELSE "mask_at_time"

\* where the caller of the find_* method goes on when it has the tiles
AfterFind(api) ==
    IF api = "find_tiles_in_box" THEN "done"
    ELSE IF api \in BoxRangeApis \cup PolygonRangeApis THEN "mask_geometry"
    ELSE IF api \in MetadataApis THEN "mask_time"
    ELSE IF api \in BoundingBoxApis THEN "bounds"
    ELSE "mask_at_time"

\* lines 59-61: metadatastore_docs = func(*args, **kwargs)
TileData_Query ==
    /\ ppc = "query"
    /\ \E docs \in IndexResponses : metadatastore_docs' = docs
    /\ \E d \in Durations : metadatastore_duration' = d
    /\ log' = Append(log, [op |-> FindMethod(call.api)])
    /\ ppc' = "convert"
    /\ UNCHANGED <<call, cassandra_duration, tiles, outcome, servingVars, insituVars>>

\* line 60: func raises (__get_backend or the metadata store does)
TileData_QueryRaises ==
    /\ ppc = "query"
    /\ log' = Append(log, [op |-> FindMethod(call.api)])
    /\ outcome' = StoreError
    /\ ppc' = "done"
    /\ UNCHANGED <<call, metadatastore_docs, metadatastore_duration, cassandra_duration,
                   tiles, servingVars, insituVars>>

\* lines 62-64: tiles = args[0]._metadata_store_docs_to_tiles(*metadatastore_docs)
TileData_DocsToTiles ==
    /\ ppc = "convert"
    /\ tiles' = MetadataStoreDocsToTiles(metadatastore_docs)
    /\ cassandra_duration' = 0
    /\ log' = Append(log, [op |-> "_metadata_store_docs_to_tiles"])
    /\ ppc' = "fetch"
    /\ UNCHANGED <<call, metadatastore_docs, metadatastore_duration, outcome, servingVars, insituVars>>

\* lines 65-69 when both conditions hold: args[0].fetch_data_for_tiles(*tiles),
\* which makes one call of self._datastore.fetch_nexus_tiles (line 404)
TileData_Fetch ==
    /\ ppc = "fetch"
    /\ FetchRequested(call.kwargs, TRUE)
    /\ Len(tiles) > 0
    /\ \E held \in SUBSET TileIds : \E d \in Durations :
          LET nexus_tile_ids == {tiles[i].tile_id : i \in 1..Len(tiles)}
              matched_tile_data == FetchNexusTiles(held, nexus_tile_ids)
              fetched == FetchDataForTiles(tiles, matched_tile_data)
          IN  /\ log' = Append(log, [op |-> "fetch_nexus_tiles",
                                     target |-> DataStore,
                                     ids |-> nexus_tile_ids,
                                     matched |-> {Str(a.tile_id) : a \in matched_tile_data}])
              /\ tiles' = fetched.tiles
              /\ IF fetched.exc = NoResult
                 THEN /\ cassandra_duration' = cassandra_duration + d
                      /\ ppc' = "metrics"
                      /\ UNCHANGED outcome
                 ELSE /\ outcome' = fetched.exc
                      /\ ppc' = "done"
                      /\ UNCHANGED cassandra_duration
    /\ UNCHANGED <<call, metadatastore_docs, metadatastore_duration, servingVars, insituVars>>

\* lines 65-66 when one of the conditions fails
TileData_NoFetch ==
    /\ ppc = "fetch"
    /\ ~(FetchRequested(call.kwargs, TRUE) /\ Len(tiles) > 0)
    /\ ppc' = "metrics"
    /\ UNCHANGED <<call, metadatastore_docs, metadatastore_duration, cassandra_duration,
                   tiles, log, outcome, servingVars, insituVars>>

\* line 79 and the return of the find_* call to the method that made it
TileData_Return ==
    /\ ppc' = AfterFind(call.api)
    /\ outcome' = IF AfterFind(call.api) = "done" THEN ReturnTiles(tiles) ELSE outcome

\* lines 71-79 without the try/except: the callback's Exception leaves the call
TileData_Metrics_Propagate ==
    /\ ppc = "metrics"
    /\ IF HasCallback(call.kwargs)
       THEN /\ log' = Append(log, [op |-> "metrics_callback",
                                   cassandra |-> cassandra_duration,
                                   metadatastore |-> metadatastore_duration,
                                   num_tiles |-> Len(tiles)])
            /\ IF call.kwargs["metrics_callback"] = "raises"
               THEN outcome' = CallbackError /\ ppc' = "done"
               ELSE TileData_Return
       ELSE UNCHANGED log /\ TileData_Return
    /\ UNCHANGED <<call, metadatastore_docs, metadatastore_duration, cassandra_duration,
                   tiles, servingVars, insituVars>>

\* lines 71-79: the callback, whose Exception is logged, and return tiles
TileData_Metrics ==
    /\ ppc = "metrics"
    /\ IF HasCallback(call.kwargs)
       THEN log' = Append(log, [op |-> "metrics_callback",
                                cassandra |-> cassandra_duration,
                                metadatastore |-> metadatastore_duration,
                                num_tiles |-> Len(tiles)])
       ELSE UNCHANGED log
    /\ TileData_Return
    /\ UNCHANGED <<call, metadatastore_docs, metadatastore_duration, cassandra_duration,
                   tiles, servingVars, insituVars>>

(***************************************************************************)
(* The masking statements of the get_tiles_* methods, lines 266-336.       *)
(***************************************************************************)
\* lines 297-299 with the test "start_time <= end_time"
GetTiles_MaskGeometry_AnyStart ==
    /\ ppc = "mask_geometry"
    /\ IF call.api \in BoxRangeApis
       THEN /\ tiles' = mask_tiles_to_bbox(call.bbox.min_lat, call.bbox.max_lat,
                                           call.bbox.min_lon, call.bbox.max_lon, tiles)
            /\ log' = Append(log, [op |-> "mask_tiles_to_bbox"])
       ELSE /\ tiles' = mask_tiles_to_polygon(call.polygon, tiles)
            /\ log' = Append(log, [op |-> "mask_tiles_to_polygon"])
    /\ IF call.start_time <= call.end_time
       THEN ppc' = "mask_time" /\ UNCHANGED outcome
       ELSE ppc' = "done" /\ outcome' = ReturnTiles(tiles')
    /\ UNCHANGED <<call, metadatastore_docs, metadatastore_duration, cassandra_duration,
                   servingVars, insituVars>>

\* lines 297-299 and 306-308: the geometry mask and the test of the time range
GetTiles_MaskGeometry ==
    /\ ppc = "mask_geometry"
    /\ IF call.api \in BoxRangeApis
       THEN /\ tiles' = mask_tiles_to_bbox(call.bbox.min_lat, call.bbox.max_lat,
                                           call.bbox.min_lon, call.bbox.max_lon, tiles)
            /\ log' = Append(log, [op |-> "mask_tiles_to_bbox"])
       ELSE /\ tiles' = mask_tiles_to_polygon(call.polygon, tiles)
            /\ log' = Append(log, [op |-> "mask_tiles_to_polygon"])
    /\ IF 0 <= call.start_time /\ call.start_time <= call.end_time
       THEN ppc' = "mask_time" /\ UNCHANGED outcome
       ELSE ppc' = "done" /\ outcome' = ReturnTiles(tiles')
    /\ UNCHANGED <<call, metadatastore_docs, metadatastore_duration, cassandra_duration,
                   servingVars, insituVars>>

\* lines 266, 299, 308 with the time mask called with (0, end_time)
GetTiles_MaskTimeRange_FromEpoch ==
    /\ ppc = "mask_time"
    /\ tiles' = mask_tiles_to_time_range(0, call.end_time, tiles)
    /\ log' = Append(log, [op |-> "mask_tiles_to_time_range"])
    /\ ppc' = "done"
    /\ outcome' = ReturnTiles(tiles')
    /\ UNCHANGED <<call, metadatastore_docs, metadatastore_duration, cassandra_duration,
                   servingVars, insituVars>>

\* lines 266, 299, 308: tiles = self.mask_tiles_to_time_range(start_time, end_time, tiles)
GetTiles_MaskTimeRange ==
    /\ ppc = "mask_time"
    /\ tiles' = mask_tiles_to_time_range(call.start_time, call.end_time, tiles)
    /\ log' = Append(log, [op |-> "mask_tiles_to_time_range"])
    /\ ppc' = "done"
    /\ outcome' = ReturnTiles(tiles')
    /\ UNCHANGED <<call, metadatastore_docs, metadatastore_duration, cassandra_duration,
                   servingVars, insituVars>>

\* lines 322, 328, 334 with the combined mask called with (0, time)
GetTiles_MaskAtTime_FromEpoch ==
    /\ ppc = "mask_at_time"
    /\ IF call.api \in BoxAtTimeApis
       THEN /\ tiles' = mask_tiles_to_bbox_and_time(call.bbox.min_lat, call.bbox.max_lat,
                                                    call.bbox.min_lon, call.bbox.max_lon,
                                                    0, call.time, tiles)
            /\ log' = Append(log, [op |-> "mask_tiles_to_bbox_and_time"])
       ELSE /\ tiles' = mask_tiles_to_polygon_and_time(call.polygon, 0, call.time, tiles)
            /\ log' = Append(log, [op |-> "mask_tiles_to_polygon_and_time"])
    /\ ppc' = "done"
    /\ outcome' = ReturnTiles(tiles')
    /\ UNCHANGED <<call, metadatastore_docs, metadatastore_duration, cassandra_duration,
                   servingVars, insituVars>>

\* lines 322, 328, 334: the combined mask, called with (time, time)
GetTiles_MaskAtTime ==
    /\ ppc = "mask_at_time"
    /\ IF call.api \in BoxAtTimeApis
       THEN /\ tiles' = mask_tiles_to_bbox_and_time(call.bbox.min_lat, call.bbox.max_lat,
                                                    call.bbox.min_lon, call.bbox.max_lon,
                                                    call.time, call.time, tiles)
            /\ log' = Append(log, [op |-> "mask_tiles_to_bbox_and_time"])
       ELSE /\ tiles' = mask_tiles_to_polygon_and_time(call.polygon, call.time, call.time, tiles)
            /\ log' = Append(log, [op |-> "mask_tiles_to_polygon_and_time"])
    /\ ppc' = "done"
    /\ outcome' = ReturnTiles(tiles')
    /\ UNCHANGED <<call, metadatastore_docs, metadatastore_duration, cassandra_duration,
                   servingVars, insituVars>>

\* a mask given a Tile whose arrays are None (fetch_data=False) may raise
\* instead of leaving the tile as it is
GetTiles_MaskRaises ==
    /\ ppc \in {"mask_geometry", "mask_time", "mask_at_time"}
    /\ \E i \in 1..Len(tiles) : ~tiles[i].data.populated
    /\ outcome' = TypeError
    /\ ppc' = "done"
    /\ UNCHANGED <<call, metadatastore_docs, metadatastore_duration, cassandra_duration,
                   tiles, log, servingVars, insituVars>>

(***************************************************************************)
(* get_bounding_box, lines 344-355.                                        *)
(***************************************************************************)
Min(S) == CHOOSE x \in S : \A y \in S : x <= y
Max(S) == CHOOSE x \in S : \A y \in S : y <= x

\* shapely.geometry.box(minx, miny, maxx, maxy)
ShapelyBox(minx, miny, maxx, maxy) == [minx |-> minx, miny |-> miny, maxx |-> maxx, maxy |-> maxy]

\* MultiPolygon(polys).bounds for at least one polygon: (minx, miny, maxx, maxy)
MultiPolygonBounds(polys) ==
    <<Min({polys[i].minx : i \in 1..Len(polys)}), Min({polys[i].miny : i \in 1..Len(polys)}),
      Max({polys[i].maxx : i \in 1..Len(polys)}), Max({polys[i].maxy : i \in 1..Len(polys)})>>

\* the method returns a shapely box
ReturnBox(bx) == [kind |-> "box", box |-> bx]
\* box(*bounds) of an empty MultiPolygon: no coordinates (TypeError) or NaN
\* coordinates, depending on the shapely version
EmptyBoundsOutcomes == {TypeError, [kind |-> "box", box |-> "NaN"]}

\* lines 353-355 with the arguments of box() in the order (lat, lon, lat, lon)
GetBoundingBox_Bounds_LatFirst ==
    /\ ppc = "bounds"
    /\ IF Len(tiles) > 0
       THEN LET polys == [i \in 1..Len(tiles) |->
                            ShapelyBox(tiles[i].bbox.min_lat, tiles[i].bbox.min_lon,
                                       tiles[i].bbox.max_lat, tiles[i].bbox.max_lon)]
                bounds == MultiPolygonBounds(polys)
            IN  outcome' = ReturnBox(ShapelyBox(bounds[1], bounds[2], bounds[3], bounds[4]))
       ELSE outcome' \in EmptyBoundsOutcomes
    /\ ppc' = "done"
    /\ UNCHANGED <<call, metadatastore_docs, metadatastore_duration, cassandra_duration,
                   tiles, log, servingVars, insituVars>>

\* lines 353-355: polys, then box(*MultiPolygon(polys).bounds)
GetBoundingBox_Bounds ==
    /\ ppc = "bounds"
    /\ IF Len(tiles) > 0
       THEN LET polys == [i \in 1..Len(tiles) |->
                            ShapelyBox(tiles[i].bbox.min_lon, tiles[i].bbox.min_lat,
                                       tiles[i].bbox.max_lon, tiles[i].bbox.max_lat)]
                bounds == MultiPolygonBounds(polys)
            IN  outcome' = ReturnBox(ShapelyBox(bounds[1], bounds[2], bounds[3], bounds[4]))
       ELSE outcome' \in EmptyBoundsOutcomes
    /\ ppc' = "done"
    /\ UNCHANGED <<call, metadatastore_docs, metadatastore_duration, cassandra_duration,
                   tiles, log, servingVars, insituVars>>

(***************************************************************************)
(* SpecPipeline: one call of a query method, from the call to its return   *)
(* or raise, with every answer the two stores can give.                    *)
(***************************************************************************)
NextPipeline ==
    \/ TileData_Query
    \/ TileData_QueryRaises
    \/ TileData_DocsToTiles
    \/ TileData_Fetch
    \/ TileData_NoFetch
    \/ TileData_Metrics
    \/ GetTiles_MaskGeometry
    \/ GetTiles_MaskTimeRange
    \/ GetTiles_MaskAtTime
    \/ GetTiles_MaskRaises
    \/ GetBoundingBox_Bounds

SpecPipeline == InitPipeline /\ [][NextPipeline]_vars

(***************************************************************************)
(* query_insitu, insitu.py lines 51-121: the paged query of the in-situ    *)
(* API.  One thread runs it; the API and the endpoint configuration are    *)
(* its environment.                                                        *)
(***************************************************************************)
\* largest number of requests one query makes in the model
MaxPages == 3

\* the URL of a page of the query, and the str 'NA'
Url(n) == [py |-> "str", s |-> "url", page |-> n]
NA == PyStr("NA")
Urls == {Url(n) : n \in 1..MaxPages}

\* what insitu_endpoints.getEndpoint(provider, dataset) can give (line 89)
Endpoints == {Url(1), NA, PyNone}

\* the arguments that decide the control flow: variable and session
InsituCalls ==
    {[api |-> "query_insitu", variable |-> v, session |-> ss] :
        v \in {PyNone, PyStr("sst")}, ss \in {PyNone, [py |-> "Session"]}}

\* lines 71-84: the dict params of the first request
FirstParams(c) ==
    LET base == [itemsPerPage |-> "items_per_page", startTime |-> "start_time",
                 endTime |-> "end_time", bbox |-> "bbox", minDepth |-> "depth_min",
                 maxDepth |-> "depth_max", provider |-> "provider",
                 project |-> "project", platform |-> "platform"]
    IN  IF c.variable # PyNone THEN ("variable" :> c.variable) @@ base ELSE base

\* the JSON object of one page: a list 'results' and, possibly, a 'next' that
\* is null, 'NA' or the URL of another page
ResultLists == {<<>>, <<"a">>, <<"b">>}
PageResponses ==
    {[results |-> r] : r \in ResultLists}
    \cup {[results |-> r, next |-> u] : r \in ResultLists, u \in {PyNone, NA} \cup Urls}

\* dict.get(key, None)
DictGet(d, k) == IF k \in DOMAIN d THEN d[k] ELSE PyNone

\* line 104: NexusProcessingException(code=504, reason='Insitu request timed out ...')
InsituTimedOut ==
    [kind |-> "raise", class |-> "NexusProcessingException", code |-> 504,
     reason |-> "Insitu request timed out"]
\* line 108: what response.raise_for_status() raises
HTTPError == [kind |-> "raise", class |-> "HTTPError"]
ReturnResponse(r) == [kind |-> "return", value |-> r]

\* line 90: the condition of the while loop
MorePages == next_page_url # PyNone /\ next_page_url # NA

\* lines 98-102: the request, through the session if there is one
Request ==
    [url |-> next_page_url, params |-> params,
     get |-> IF icall.session # PyNone THEN "session.get" ELSE "requests.get"]

\* the state in which query_insitu has just been called
InitInsitu ==
    /\ InitService
    /\ call = NoCall
    /\ ppc = "idle"
    /\ InitLocals
    /\ icall \in InsituCalls
    /\ ipc = "called"
    /\ params = EmptyDict
    /\ insitu_response = EmptyDict
    /\ next_page_url = PyNone
    /\ requests = <<>>
    /\ pages = <<>>
    /\ insitu_outcome = NoResult

\* lines 55-89: params, insitu_response = {} and the first URL
Insitu_Start ==
    /\ ipc = "called"
    /\ params' = FirstParams(icall)
    /\ insitu_response' = EmptyDict
    /\ \E u \in Endpoints : next_page_url' = u
    /\ ipc' = "loop"
    /\ UNCHANGED <<icall, requests, pages, insitu_outcome, servingVars, pipelineVars>>

\* lines 90-117 without line 117: the params stay for the following requests
Insitu_Page_KeepParams ==
    /\ ipc = "loop"
    /\ MorePages
    /\ Len(requests) < MaxPages
    /\ requests' = Append(requests, Request)
    /\ \E insitu_page_response \in PageResponses :
          /\ pages' = Append(pages, insitu_page_response)
          /\ insitu_response' =
                IF DOMAIN insitu_response = {}
                THEN insitu_page_response
                ELSE [insitu_response EXCEPT
                         !["results"] = @ \o insitu_page_response["results"]]
          /\ next_page_url' = DictGet(insitu_page_response, "next")
    /\ UNCHANGED <<icall, ipc, params, insitu_outcome, servingVars, pipelineVars>>

\* lines 90-117: one pass of the loop in which the request is answered
Insitu_Page ==
    /\ ipc = "loop"
    /\ MorePages
    /\ Len(requests) < MaxPages
    /\ requests' = Append(requests, Request)
    /\ \E insitu_page_response \in PageResponses :
          /\ pages' = Append(pages, insitu_page_response)
          \* lines 111-114: "not insitu_response" is true for the empty dict
          /\ insitu_response' =
                IF DOMAIN insitu_response = {}
                THEN insitu_page_response
                ELSE [insitu_response EXCEPT
                         !["results"] = @ \o insitu_page_response["results"]]
          \* line 116
          /\ next_page_url' = DictGet(insitu_page_response, "next")
    \* line 117
    /\ params' = EmptyDict
    /\ UNCHANGED <<icall, ipc, insitu_outcome, servingVars, pipelineVars>>

\* lines 98-104: the request ends in ReadTimeout or ConnectTimeout
Insitu_Timeout ==
    /\ ipc = "loop"
    /\ MorePages
    /\ Len(requests) < MaxPages
    /\ requests' = Append(requests, Request)
    /\ insitu_outcome' = InsituTimedOut
    /\ ipc' = "done"
    /\ UNCHANGED <<icall, params, insitu_response, next_page_url, pages,
                   servingVars, pipelineVars>>

\* line 108: the answer has an error status and raise_for_status() raises
Insitu_HTTPError ==
    /\ ipc = "loop"
    /\ MorePages
    /\ Len(requests) < MaxPages
    /\ requests' = Append(requests, Request)
    /\ insitu_outcome' = HTTPError
    /\ ipc' = "done"
    /\ UNCHANGED <<icall, params, insitu_response, next_page_url, pages,
                   servingVars, pipelineVars>>

\* lines 90 and 119-121: the loop ends; insitu_response['results'] is read for
\* the log line, which raises KeyError when no page was read
Insitu_Return ==
    /\ ipc = "loop"
    /\ ~MorePages
    /\ insitu_outcome' = IF "results" \in DOMAIN insitu_response
                         THEN ReturnResponse(insitu_response)
                         ELSE KeyError
    /\ ipc' = "done"
    /\ UNCHANGED <<icall, params, insitu_response, next_page_url, requests, pages,
                   servingVars, pipelineVars>>

NextInsitu ==
    \/ Insitu_Start
    \/ Insitu_Page
    \/ Insitu_Timeout
    \/ Insitu_HTTPError
    \/ Insitu_Return

\* the thread that called query_insitu keeps running
SpecInsitu == InitInsitu /\ [][NextInsitu]_vars /\ WF_vars(NextInsitu)

(***************************************************************************)
(* Spec: the constructors, the dataset_update threads and one request      *)
(* thread race each other.  SpecResolve: every request thread and the      *)
(* constructors run while no refresh cycle runs.                           *)
(***************************************************************************)
Racing == {1}

Next ==
    \/ \E s \in Services : Init_SeedDefault(s)
    \/ \E s \in Services : Init_AliasAndStart(s)
    \/ \E s \in Services : Update_AcquireDS(s)
    \/ \E s \in Services : Update_AcquireSolr(s)
    \/ \E s \in Services : Update_SearchOk(s)
    \/ \E s \in Services : Update_SearchRaises(s)
    \/ \E s \in Services : Update_ProcessDoc(s)
    \/ \E s \in Services : Update_ComputeRemoved(s)
    \/ \E s \in Services : Update_RemoveDataset(s)
    \/ \E s \in Services : Update_Release(s)
    \/ \E q \in Racing : GetBackend_MembershipTest(q)
    \/ \E q \in Racing : GetBackend_Lookup(q)
    \/ \E q \in Racing : GetBackend_ReadUp(q)
    \/ \E q \in Racing : GetBackend_ConnectFails(q)
    \/ \E q \in Racing : GetBackend_ConnectOk(q)
    \/ \E q \in Racing : GetBackend_MarkUp(q)
    \/ \E k \in Keys : MarkDown(k)

Spec == Init /\ [][Next]_vars

NextResolve ==
    \/ \E s \in Services : Init_SeedDefault(s)
    \/ \E s \in Services : Init_AliasAndStart(s)
    \/ \E q \in Queriers : GetBackend_MembershipTest(q)
    \/ \E q \in Queriers : GetBackend_Lookup(q)
    \/ \E q \in Queriers : GetBackend_ReadUp(q)
    \/ \E q \in Queriers : GetBackend_ConnectFails(q)
    \/ \E q \in Queriers : GetBackend_ConnectOk(q)
    \/ \E q \in Queriers : GetBackend_MarkUp(q)
    \/ \E k \in Keys : MarkDown(k)

SpecResolve == Init /\ [][NextResolve]_vars

(***************************************************************************)
(* SpecCatalog: the constructors and the dataset_update threads, with      *)
(* catalogs of several documents and no request thread.                    *)
(***************************************************************************)
NextCatalog ==
    \/ \E s \in Services : Init_SeedDefault(s)
    \/ \E s \in Services : Init_AliasAndStart(s)
    \/ \E s \in Services : Update_AcquireDS(s)
    \/ \E s \in Services : Update_AcquireSolr(s)
    \/ \E s \in Services : Update_SearchOkFull(s)
    \/ \E s \in Services : Update_SearchRaises(s)
    \/ \E s \in Services : Update_ProcessDoc(s)
    \/ \E s \in Services : Update_ComputeRemoved(s)
    \/ \E s \in Services : Update_RemoveDataset(s)
    \/ \E s \in Services : Update_Release(s)
    \/ \E k \in Keys : MarkDown(k)

SpecCatalog == Init /\ [][NextCatalog]_vars

(***************************************************************************)
(* SpecLayer: the operations of nexustiles.py alone, the constructors, the *)
(* dataset_update threads and a request thread, with no write to the       *)
(* registry from outside the module.  The reconnect steps of __get_backend *)
(* (lines 129-134) are enabled only at "connect" and "mark", which C25     *)
(* shows are never reached here.                                           *)
(***************************************************************************)
NextLayer ==
    \/ \E s \in Services : Init_SeedDefault(s)
    \/ \E s \in Services : Init_AliasAndStart(s)
    \/ \E s \in Services : Update_AcquireDS(s)
    \/ \E s \in Services : Update_AcquireSolr(s)
    \/ \E s \in Services : Update_SearchOk(s)
    \/ \E s \in Services : Update_SearchRaises(s)
    \/ \E s \in Services : Update_ProcessDoc(s)
    \/ \E s \in Services : Update_ComputeRemoved(s)
    \/ \E s \in Services : Update_RemoveDataset(s)
    \/ \E s \in Services : Update_Release(s)
    \/ \E q \in Racing : GetBackend_MembershipTest(q)
    \/ \E q \in Racing : GetBackend_Lookup(q)
    \/ \E q \in Racing : GetBackend_ReadUp(q)

SpecLayer == Init /\ [][NextLayer]_vars

(***************************************************************************)
(* Properties.                                                             *)
(***************************************************************************)
\* no constructor is between its two registry writes (lines 108 and 109)
NoConstructorRunning == \A s \in Services : cpc[s] # "alias"

\* the step leaves a refresh cycle whose catalog query had answered
CycleEnds(s) == rpc[s] \in {"loop", "del"} /\ rpc'[s] \in {"outside", "dead"}

\* the dataset identifiers the cycle's catalog response lists
Listed(s) == {response[s][i].dataset_s : i \in 1..Len(response[s])}

\* the identifiers it lists with a store type the loop has a branch for
ListedRecognised(s) ==
    {response[s][i].dataset_s : i \in {j \in 1..Len(response[s]) :
        StoreType(response[s][j]) \in {"nexusproto", "nexus_proto", "zarr"}}}

\* the step is the return or raise of a __get_backend call of q
CallEnds(q) == qpc[q] # "idle" /\ qpc'[q] = "idle"

\* C1: in every reachable state the default key None and the alias key
\* '__nexusproto__' are both in the registry and map to the same binding
\* object.  (States between the two writes of a running constructor are left
\* out, so that only refresh cycles are held against the claim.)
C1_DefaultAndAliasBound ==
    NoConstructorRunning =>
        /\ Bound(NoneKey)
        /\ Bound(Alias)
        /\ backends[NoneKey] = backends[Alias]

\* C2: the catalog refresher never terminates: no failure inside a refresh
\* cycle ends a started dataset_update thread.
C2_RefresherNeverTerminates == \A s \in Services : rpc[s] # "dead"

\* C3: every read and write of the registry by __get_backend happens while
\* the calling thread holds DS_LOCK: a thread past the membership test of
\* line 123 and not yet out of the call is the holder of the lock.
C3_ResolveHoldsLock == \A q \in Queriers : qpc[q] # "idle" => DS_LOCK = QueryThread(q)

\* C4: a resolve racing with a refresh cycle returns the handle or fails with
\* one of the errors __get_backend raises itself; it never fails with a raw
\* missing-key error.
C4_NoRawKeyError ==
    \A q \in Queriers : result[q].kind = "raise" => result[q].class # "KeyError"

\* C5: when a refresh cycle whose catalog query answered is over, every
\* dataset the catalog does not list is unbound (resolve fails with
\* DatasetNotFound) and every dataset it lists with a recognised store type
\* is bound (resolve finds its binding).
C5_RegistryFollowsCatalog ==
    [][\A s \in Services : CycleEnds(s) =>
          \A d \in Datasets :
             /\ d \notin Listed(s) => d \notin DOMAIN backends'
             /\ d \in ListedRecognised(s) => d \in DOMAIN backends']_vars

\* C7: when the reconnect attempt of a resolve succeeds, the call returns the
\* handle of the binding it looked up.
C7_ReconnectedReturnsHandle ==
    [][\A q \in Queriers : (qpc[q] = "mark" /\ CallEnds(q)) =>
          /\ result'[q].kind = "return"
          /\ result'[q].backend = objs[b[q]].backend]_vars

\* C10: resolve calls for the same dataset made while no refresh cycle runs
\* return the same backend handle.
C10_SameHandle ==
    \A q1, q2 \in Queriers :
        (/\ qpc[q1] = "idle" /\ qpc[q2] = "idle"
         /\ result[q1].kind = "return" /\ result[q2].kind = "return"
         /\ dataset_s[q1] = dataset_s[q2])
        => result[q1].backend = result[q2].backend

\* the step is the call of __get_backend by q together with its membership test
CallStarts(q) ==
    /\ qpc[q] = "idle"
    /\ <<qpc[q], dataset_s[q], attempts[q], result[q]>>'
          # <<qpc[q], dataset_s[q], attempts[q], result[q]>>

\* C6: resolve for an identifier with no binding fails with the 404-class
\* DatasetNotFoundException, makes no reconnect attempt and leaves the registry
\* (keys, bindings, liveness flags) unchanged; an identifier with a binding
\* passes the membership test.
C6_UnboundRaisesNotFound ==
    [][\A q \in Queriers : CallStarts(q) =>
          IF dataset_s'[q] \notin DOMAIN backends
          THEN /\ qpc'[q] = "idle"
               /\ result'[q].kind = "raise"
               /\ result'[q].class = "DatasetNotFoundException"
               /\ result'[q].code = 404
               /\ attempts'[q] = 0
               /\ registry' = registry
          ELSE /\ qpc'[q] = "lookup"
               /\ registry' = registry]_vars

\* C6 happens: a resolve of the default key, which a refresh cycle has removed
\* while other keys are bound, has failed with DatasetNotFound.
C6_Witness ==
    \E q \in Queriers :
        /\ qpc[q] = "idle"
        /\ dataset_s[q] = NoneKey
        /\ ~Bound(NoneKey)
        /\ DOMAIN backends # {}
        /\ result[q].kind = "raise"
        /\ result[q].class = "DatasetNotFoundException"

\* the step is the end of a call of q whose binding was not live and whose
\* try_connect gave False
ReconnectFailed(q) == qpc[q] = "connect" /\ qpc'[q] = "idle"

\* C8: when the binding is not live and try_connect gives False, resolve fails
\* with the 5xx NexusProcessingException, the registry keeps every key and every
\* liveness flag as it was, and the call has made exactly one reconnect attempt.
C8_FailedReconnectRaisesUnavailable ==
    [][\A q \in Queriers : ReconnectFailed(q) =>
          /\ result'[q].kind = "raise"
          /\ result'[q].class = "NexusProcessingException"
          /\ result'[q].code \in 500..599
          /\ attempts'[q] = 1
          /\ registry' = registry]_vars

\* C8 happens: a resolve has failed as unavailable after one attempt and its
\* dataset is still bound to a binding that is still not live.
C8_Witness ==
    \E q \in Queriers :
        /\ qpc[q] = "idle"
        /\ result[q].kind = "raise"
        /\ result[q].class = "NexusProcessingException"
        /\ attempts[q] = 1
        /\ Bound(dataset_s[q])
        /\ ~objs[backends[dataset_s[q]]].up

StartedRefreshers == {s \in Services : rpc[s] # "unstarted"}

\* C11: the default binding is seeded once, at the first construction of a
\* service, and a later construction does not replace it: the default key,
\* while bound, maps to the binding object the first constructor made (object
\* 1).  However many services are constructed, one refresher thread has been
\* started.
C11_SeededOnceOneRefresher ==
    /\ Bound(NoneKey) => backends[NoneKey] = 1
    /\ Cardinality(StartedRefreshers) <= 1

\* the step is a step of the refresh cycle of s after its catalog query answered
CycleStep(s) ==
    /\ rpc[s] \in {"loop", "del"}
    /\ <<rpc[s], idx[s], present_datasets[s], removed_datasets[s]>>'
          # <<rpc[s], idx[s], present_datasets[s], removed_datasets[s]>>

\* the document of the cycle's response that lists dataset d
DocOf(s, d) == response[s][CHOOSE i \in 1..Len(response[s]) : response[s][i].dataset_s = d]

\* C12: no step of a refresh cycle touches the binding of a dataset that is
\* bound and listed by the cycle's catalog: the dataset stays bound to the same
\* binding object, and that object keeps its backend handle and its liveness,
\* whatever store type the catalog declares for the dataset now.
C12_BoundAndListedUntouched ==
    [][\A s \in Services : CycleStep(s) =>
          \A d \in Listed(s) \cap DOMAIN backends :
             /\ d \in DOMAIN backends'
             /\ backends'[d] = backends[d]
             /\ objs'[backends[d]] = objs[backends[d]]]_vars

\* C12 happens: a cycle has gone through its whole catalog, which lists, with
\* a store type other than zarr, a dataset bound to a zarr backend that is down.
C12_Witness ==
    \E s \in Services : \E d \in Listed(s) :
        /\ rpc[s] = "del"
        /\ StoreType(DocOf(s, d)) # "zarr"
        /\ Bound(d)
        /\ objs[backends[d]].backend.type = "ZarrBackend"
        /\ ~objs[backends[d]].up

\* the store types the loop of lines 159-178 has a branch for
RecognisedStoreTypes == {"nexusproto", "nexus_proto", "zarr"}

\* the step is the loop iteration of s for a document of an unbound dataset
\* with a recognised store type
BindsNew(s) ==
    /\ CycleStep(s)
    /\ rpc[s] = "loop"
    /\ idx[s] <= Len(response[s])
    /\ response[s][idx[s]].dataset_s \notin DOMAIN backends
    /\ StoreType(response[s][idx[s]]) \in RecognisedStoreTypes

\* C13: in every refresh cycle whose catalog query answered, the first or a
\* later one, the loop iteration for a listed dataset that is not yet bound and
\* has a recognised store type leaves the dataset bound, and the cycle goes on
\* to its next document.  (The liveness of the new binding, which the claim
\* asserts as well, is not needed to refute it.)
C13_ListedUnboundGetsBound ==
    [][\A s \in Services : BindsNew(s) =>
          /\ response[s][idx[s]].dataset_s \in DOMAIN backends'
          /\ rpc'[s] = "loop"]_vars

\* the step is the loop iteration of s for a document of an unbound dataset
\* whose store type the loop has no branch for
SkipsUnrecognised(s) ==
    /\ CycleStep(s)
    /\ rpc[s] = "loop"
    /\ idx[s] <= Len(response[s])
    /\ response[s][idx[s]].dataset_s \notin DOMAIN backends
    /\ StoreType(response[s][idx[s]]) \notin RecognisedStoreTypes

\* C14: the loop iteration for a catalog entry with an unrecognised store type
\* inserts no binding and changes nothing else in the registry, and it does not
\* end the cycle: the thread keeps DS_LOCK and stands at the next document of
\* the same response, from where the rest of the loop and the removal step run.
C14_UnrecognisedSkipped ==
    [][\A s \in Services : SkipsUnrecognised(s) =>
          /\ registry' = registry
          /\ rpc'[s] = "loop"
          /\ idx'[s] = idx[s] + 1
          /\ response'[s] = response[s]
          /\ DS_LOCK' = DS_LOCK]_vars

\* C14 happens: a cycle whose catalog lists first a dataset with an
\* unrecognised store type and then a zarr dataset has bound the second, has
\* not bound the first, and has carried out its removals (the default key is
\* gone).
C14_Witness ==
    \E s \in Services :
        /\ rpc[s] = "del"
        /\ removed_datasets[s] = {}
        /\ Len(response[s]) = 2
        /\ StoreType(response[s][1]) \notin RecognisedStoreTypes
        /\ ~Bound(response[s][1].dataset_s)
        /\ StoreType(response[s][2]) = "zarr"
        /\ Bound(response[s][2].dataset_s)
        /\ ~Bound(NoneKey)

\* the positions in log of the calls of fetch_nexus_tiles
FetchCalls == {k \in 1..Len(log) : log[k].op = "fetch_nexus_tiles"}

\* C15: a batched fetch whose response lacks a requested tile id ends the whole
\* call with an error that names the missing ids, and no call returns a result
\* in which some tiles hold data and others do not.
C15_MissingTileFailsWhole ==
    /\ \A k \in FetchCalls :
          log[k].ids \ log[k].matched # {} =>
             /\ ppc = "done"
             /\ outcome.kind = "raise"
             /\ outcome.class = "Exception"
             /\ outcome.ids = log[k].ids \ log[k].matched
    /\ outcome.kind = "return" =>
          \A i, j \in 1..Len(outcome.tiles) :
             outcome.tiles[i].data.populated = outcome.tiles[j].data.populated

\* C15 happens: two tiles were requested, the store answered with one of
\* them, and the call has raised.
C15_Witness ==
    \E k \in FetchCalls :
        /\ log[k].ids = {"t1", "t2"}
        /\ log[k].matched = {"t1"}
        /\ outcome.kind = "raise"

\* the step is the report to a metrics callback that raises
CallbackRaises ==
    /\ ppc = "metrics"
    /\ "metrics_callback" \in DOMAIN call.kwargs
    /\ call.kwargs["metrics_callback"] = "raises"

\* C16: an Exception raised by the metrics callback does not leave the call:
\* the step that reports to the callback leaves the tiles as they are and goes
\* on to where the call goes without a callback, the return of the tiles.
C16_CallbackFailureSwallowed ==
    [][CallbackRaises =>
          /\ tiles' = tiles
          /\ outcome'.kind # "raise"
          /\ ppc' = AfterFind(call.api)
          /\ AfterFind(call.api) = "done" => outcome' = ReturnTiles(tiles)]_vars

\* C16 happens: a call whose callback raised has returned tiles that hold data.
C16_Witness ==
    /\ ppc = "done"
    /\ "metrics_callback" \in DOMAIN call.kwargs
    /\ call.kwargs["metrics_callback"] = "raises"
    /\ \E k \in 1..Len(log) : log[k].op = "metrics_callback"
    /\ outcome.kind = "return"
    /\ Len(outcome.tiles) > 0
    /\ \A i \in 1..Len(outcome.tiles) : outcome.tiles[i].data.populated

\* the call is past the fetch statements of lines 65-69
PastFetch ==
    /\ \E k \in 1..Len(log) : log[k].op = "_metadata_store_docs_to_tiles"
    /\ ppc # "fetch"

\* C17: the data store is called (once) exactly when the data is asked for, by
\* the fetch_data argument when it is given and by default when it is not, and
\* the metadata lookup returned at least one tile; with fetch_data false no
\* call of the data store is made and no tile holds data.
C17_FetchExactlyWhenRequested ==
    PastFetch =>
        LET requested == IF "fetch_data" \in DOMAIN call.kwargs
                         THEN call.kwargs["fetch_data"] = TRUE
                         ELSE TRUE
        IN  /\ Cardinality(FetchCalls) = IF requested /\ Len(metadatastore_docs) >= 1 THEN 1 ELSE 0
            /\ ~requested =>
                  /\ FetchCalls = {}
                  /\ \A i \in 1..Len(tiles) : tiles[i].data = NoData
                  /\ Len(tiles) = Len(metadatastore_docs)

\* C17 happens: find_tiles_in_box(..., fetch_data=False) has returned two
\* tiles without data and without a call of the data store.
C17_Witness ==
    /\ ppc = "done"
    /\ call.api = "find_tiles_in_box"
    /\ "fetch_data" \in DOMAIN call.kwargs
    /\ call.kwargs["fetch_data"] = FALSE
    /\ outcome.kind = "return"
    /\ Len(outcome.tiles) = 2
    /\ \A i \in 1..Len(outcome.tiles) : outcome.tiles[i].data = NoData
    /\ FetchCalls = {}

\* C18: every batched fetch is for the tiles of one dataset, that dataset is
\* bound in the registry, and the fetch goes to the backend of its binding.
C18_FetchPerDatasetBackend ==
    \A k \in FetchCalls :
        \E d \in Datasets :
            /\ \A id \in log[k].ids : TileDoc(id).dataset_s = d
            /\ Bound(d)
            /\ log[k].target = objs[backends[d]].backend

\* how many calls of the masks named in ops the call has made
MaskCalls(ops) == Cardinality({k \in 1..Len(log) : log[k].op \in ops})

\* a call of get_tiles_bounded_by_box or get_tiles_bounded_by_polygon has returned
RangeCallReturned ==
    /\ call.api \in {"get_tiles_bounded_by_box", "get_tiles_bounded_by_polygon"}
    /\ ppc = "done"
    /\ outcome.kind = "return"

\* C19: a call of get_tiles_bounded_by_box or get_tiles_bounded_by_polygon that
\* returns has applied its geometry mask once, the bbox mask for the first and
\* the polygon mask for the second, and has applied the time-range mask once
\* when 0 <= start_time <= end_time and not at all otherwise; with start_time 0
\* and end_time -1 it has not applied it.
C19_GeometryAlwaysTimeWhenRange ==
    RangeCallReturned =>
        /\ MaskCalls({"mask_tiles_to_bbox"}) =
              IF call.api = "get_tiles_bounded_by_box" THEN 1 ELSE 0
        /\ MaskCalls({"mask_tiles_to_polygon"}) =
              IF call.api = "get_tiles_bounded_by_polygon" THEN 1 ELSE 0
        /\ MaskCalls({"mask_tiles_to_time_range"}) =
              IF 0 <= call.start_time /\ call.start_time <= call.end_time THEN 1 ELSE 0
        /\ (call.start_time = 0 /\ call.end_time = -1) =>
              MaskCalls({"mask_tiles_to_time_range"}) = 0
        /\ MaskCalls({"mask_tiles_to_bbox_and_time", "mask_tiles_to_polygon_and_time"}) = 0

\* C19 happens: get_tiles_bounded_by_box with the default time range has
\* returned tiles with data after the bbox mask and no time mask.
C19_Witness ==
    /\ RangeCallReturned
    /\ call.api = "get_tiles_bounded_by_box"
    /\ call.start_time = 0
    /\ call.end_time = -1
    /\ MaskCalls({"mask_tiles_to_bbox"}) = 1
    /\ MaskCalls({"mask_tiles_to_time_range"}) = 0
    /\ Len(outcome.tiles) > 0
    /\ \A i \in 1..Len(outcome.tiles) : outcome.tiles[i].data.populated

\* is the point p inside the geometry argument of the call
InGeometry(p) ==
    IF call.api \in BoxAtTimeApis \cup BoxRangeApis
    THEN /\ call.bbox.min_lat <= p[1] /\ p[1] <= call.bbox.max_lat
         /\ call.bbox.min_lon <= p[2] /\ p[2] <= call.bbox.max_lon
    ELSE <<p[1], p[2]>> \in call.polygon

\* a call of one of the three at-time methods has returned
AtTimeCallReturned ==
    /\ call.api \in BoxAtTimeApis \cup PolygonAtTimeApis
    /\ ppc = "done"
    /\ outcome.kind = "return"

\* C20: the tiles a call of get_tiles_bounded_by_box_at_time,
\* get_tiles_bounded_by_polygon_at_time or get_boundary_tiles_at_time returns
\* have been through the combined mask once; a returned tile that holds data
\* holds exactly those samples of the stored tile that lie inside the geometry
\* and whose time is the requested instant.
C20_AtTimeKeepsInstantOnly ==
    AtTimeCallReturned =>
        /\ MaskCalls({"mask_tiles_to_bbox_and_time", "mask_tiles_to_polygon_and_time"}) = 1
        /\ \A i \in 1..Len(outcome.tiles) :
              outcome.tiles[i].data.populated =>
                 outcome.tiles[i].data.samples =
                    {p \in StoredTileData(outcome.tiles[i].tile_id).samples :
                        InGeometry(p) /\ p[3] = call.time}

\* C20 happens: an at-time call for an instant after the epoch has returned a
\* tile that kept some of its samples and lost others.
C20_Witness ==
    /\ AtTimeCallReturned
    /\ call.time > 0
    /\ \E i \in 1..Len(outcome.tiles) :
          /\ outcome.tiles[i].data.populated
          /\ outcome.tiles[i].data.samples # {}
          /\ outcome.tiles[i].data.samples # StoredTileData(outcome.tiles[i].tile_id).samples
          /\ \E p \in StoredTileData(outcome.tiles[i].tile_id).samples : p[3] < call.time

\* the tiles ts as fetch_data_for_tiles left them, before any mask
Unmasked(ts) ==
    [i \in 1..Len(ts) |->
        IF ts[i].data.populated
        THEN [ts[i] EXCEPT !.data = Data(StoredTileData(ts[i].tile_id).samples)]
        ELSE ts[i]]

\* a call of get_tiles_bounded_by_box or get_tiles_bounded_by_polygon has
\* returned after both of its masks
BothMasksReturned ==
    /\ RangeCallReturned
    /\ 0 <= call.start_time
    /\ call.start_time <= call.end_time

IndexBounds(field) == {metadatastore_docs[i][field] : i \in 1..Len(metadatastore_docs)}

\* C22: no call of get_bounding_box makes a data-store fetch, and the box a
\* call returns for at least one tile found has min of tile_min_lon, min of
\* tile_min_lat, max of tile_max_lon and max of tile_max_lat over the documents
\* of the index as its (minx, miny, maxx, maxy); the tiles hold no data.
C22_SmallestCoveringBox ==
    call.api = "get_bounding_box" =>
        /\ FetchCalls = {}
        /\ (ppc = "done" /\ outcome.kind = "box" /\ Len(metadatastore_docs) > 0) =>
              /\ outcome.box.minx = Min(IndexBounds("tile_min_lon"))
              /\ outcome.box.miny = Min(IndexBounds("tile_min_lat"))
              /\ outcome.box.maxx = Max(IndexBounds("tile_max_lon"))
              /\ outcome.box.maxy = Max(IndexBounds("tile_max_lat"))
              /\ \A i \in 1..Len(tiles) : tiles[i].data = NoData

\* C22 happens: get_bounding_box has returned the box of two tiles with
\* different latitude bounds, wider than the bounds of the first.
C22_Witness ==
    /\ call.api = "get_bounding_box"
    /\ ppc = "done"
    /\ Len(metadatastore_docs) = 2
    /\ metadatastore_docs[1].tile_max_lat < metadatastore_docs[2].tile_max_lat
    /\ outcome.kind = "box"
    /\ outcome.box.maxy = metadatastore_docs[2].tile_max_lat
    /\ outcome.box.miny = metadatastore_docs[1].tile_min_lat

\* the step is the return of _update_datasets of s after its last deletion
CycleCompletes(s) == rpc[s] = "del" /\ rpc'[s] = "outside"

\* C23: when a refresh cycle completes, every key of the registry is a dataset
\* identifier the cycle's catalog response lists; the default key None and the
\* alias '__nexusproto__', which no document of the model lists, are not keys.
C23_KeysAreListed ==
    [][\A s \in Services : CycleCompletes(s) =>
          /\ DOMAIN backends' \subseteq Listed(s)
          /\ NoneKey \notin DOMAIN backends'
          /\ Alias \notin DOMAIN backends']_vars

\* the dataset_update thread of s is inside _update_datasets
InCycle(s) == rpc[s] \in {"solr", "search", "loop", "del"}

\* C24: at most one dataset_update thread is inside _update_datasets; a thread
\* holds DS_LOCK exactly while it is inside, so not while it sleeps and not
\* after it has ended; SOLR_LOCK is held only by the thread that holds DS_LOCK;
\* and the thread that holds DS_LOCK and is about to take SOLR_LOCK finds it
\* free, so no thread waits for a lock whose holder waits for another.
C24_CyclesExclusiveNoDeadlock ==
    /\ Cardinality({s \in Services : InCycle(s)}) <= 1
    /\ \A s \in Services : InCycle(s) <=> DS_LOCK = RefresherThread(s)
    /\ DS_LOCK \in {NoThread} \cup {RefresherThread(s) : s \in Services}
    /\ SOLR_LOCK # NoThread => SOLR_LOCK = DS_LOCK
    /\ \A s \in Services : rpc[s] = "solr" => SOLR_LOCK = NoThread

\* C24 happens: two dataset_update threads have been started; one is inside
\* its catalog query and holds both locks, the other is outside a cycle.
C24_Witness ==
    \E s1, s2 \in Services :
        /\ s1 # s2
        /\ rpc[s1] = "search"
        /\ DS_LOCK = RefresherThread(s1)
        /\ SOLR_LOCK = RefresherThread(s1)
        /\ rpc[s2] = "outside"

\* C25: while only the operations of the access layer run, every binding ever
\* created has 'up' true, whether or not the registry still refers to it, and
\* no resolve is in its reconnect branch (lines 129-134).
C25_LayerNeverMarksDown ==
    /\ \A i \in 1..Len(objs) : objs[i].up
    /\ \A q \in Queriers : qpc[q] \notin {"connect", "mark"} /\ attempts[q] = 0

\* C25 happens: a refresh cycle has bound a dataset to a new binding and a
\* resolve of that dataset has read its 'up' and returned its handle without
\* a reconnect.
C25_Witness ==
    \E q \in Racing, i \in 1..Len(objs) :
        /\ dataset_s[q] \in Datasets
        /\ Bound(dataset_s[q])
        /\ backends[dataset_s[q]] = i
        /\ result[q] = Return(objs[i].backend)
        /\ objs[i].backend = ZarrBackend(i)
        /\ attempts[q] = 0

\* the call has ended with the Exception of line 410
MissingDataRaised ==
    /\ ppc = "done"
    /\ outcome.kind = "raise"
    /\ outcome.class = "Exception"

\* C26: when fetch_data_for_tiles has raised for a missing tile id, every tile
\* handed to it is as _metadata_store_docs_to_tiles made it: none has been
\* given data, also not the tiles whose data the store did return.
C26_MissingDataLeavesTilesUntouched ==
    MissingDataRaised =>
        /\ tiles = MetadataStoreDocsToTiles(metadatastore_docs)
        /\ \A i \in 1..Len(tiles) : tiles[i].data = NoData

\* C26 happens: the tiles t2 and t1 were requested in that order, the store
\* returned the data of t2 only, and the call has raised for t1 with both
\* tiles without data.
C26_Witness ==
    /\ MissingDataRaised
    /\ outcome.ids = {"t1"}
    /\ Len(tiles) = 2
    /\ tiles[1].tile_id = "t2"
    /\ tiles[2].tile_id = "t1"
    /\ tiles[1].data = NoData
    /\ \E k \in FetchCalls : log[k].matched = {"t2"}

\* the position of the first tile whose id an earlier tile already had, or one
\* past the end when the ids are pairwise distinct
FirstRepeat(ts) ==
    LET repeats == {i \in 1..Len(ts) : \E j \in 1..(i - 1) : ts[j].tile_id = ts[i].tile_id}
    IN  IF repeats = {} THEN Len(ts) + 1
        ELSE CHOOSE i \in repeats : \A j \in repeats : i <= j

\* fetch_data_for_tiles has been called and the store returned every id asked
\* for; the call is right behind it (no mask has been applied yet)
FetchedAllPresent ==
    /\ FetchCalls # {}
    /\ \A k \in FetchCalls : log[k].ids \subseteq log[k].matched
    /\ \/ ppc = "metrics"
       \/ ppc = "done" /\ outcome.kind = "raise"

\* C27: when the store returns every requested id, the tiles before the first
\* repeated id hold the data the store has under their own id; with pairwise
\* distinct ids that is every tile and the fetch does not raise; with a
\* repeated id the call ends with KeyError at the first repeat, which is left
\* without data like every tile behind it.
C27_PopulatedByOwnIdUntilRepeat ==
    FetchedAllPresent =>
        LET r == FirstRepeat(tiles)
        IN  /\ \A i \in 1..(r - 1) :
                  tiles[i].data = Data(StoredTileData(tiles[i].tile_id).samples)
            /\ \A i \in r..Len(tiles) : tiles[i].data = NoData
            /\ r > Len(tiles) => ppc = "metrics"
            /\ r <= Len(tiles) => ppc = "done" /\ outcome = KeyError

\* C27 happens: the index returned the tile t1 twice, the store returned its
\* data, the first tile holds it and the call has ended with KeyError.
C27_Witness ==
    /\ FetchedAllPresent
    /\ Len(tiles) = 2
    /\ tiles[1].tile_id = "t1"
    /\ tiles[2].tile_id = "t1"
    /\ tiles[1].data.populated
    /\ ~tiles[2].data.populated
    /\ outcome = KeyError

\* the positions of the log at which the metrics callback was invoked
CallbackCalls == {k \in 1..Len(log) : log[k].op = "metrics_callback"}

\* the caller passed a metrics_callback that is not None
CallbackSupplied ==
    /\ "metrics_callback" \in DOMAIN call.kwargs
    /\ call.kwargs["metrics_callback"] \in {"ok", "raises"}

\* the call has ended in the metadata query (line 60) or in the data fetch
\* (line 68)
QueryOrFetchRaised ==
    /\ ppc = "done"
    /\ outcome.kind = "raise"
    /\ outcome.class \in {"StoreError", "Exception", "KeyError"}

\* the wrapper has passed lines 71-78
PastCallback == ppc \notin {"query", "convert", "fetch", "metrics"} /\ ~QueryOrFetchRaised

\* C28: the wrapper's calls come in the order metadata query, conversion, data
\* fetch (if any), metrics callback (if any), and the masks of the calling
\* method come after them; a call that has passed lines 71-78 has invoked a
\* supplied non-None callback exactly once and no other callback at all; the
\* callback is told the number of tiles, and a data-fetch duration of 0 when no
\* fetch was made; a call that ended in the query or in the fetch has invoked
\* no callback.
C28_StepOrderAndOneCallback ==
    /\ \A k \in 1..Len(log) :
          /\ k = 1 <=> log[k].op = FindMethod(call.api)
          /\ k = 2 <=> log[k].op = "_metadata_store_docs_to_tiles"
          /\ log[k].op = "fetch_nexus_tiles" => k = 3
          /\ log[k].op = "metrics_callback" =>
                /\ k = (IF FetchCalls = {} THEN 3 ELSE 4)
                /\ log[k].num_tiles = Len(metadatastore_docs)
                /\ log[k].metadatastore = metadatastore_duration
                /\ log[k].cassandra = cassandra_duration
                /\ FetchCalls = {} => log[k].cassandra = 0
                /\ CallbackSupplied
    /\ Cardinality(CallbackCalls) <= 1
    /\ PastCallback /\ CallbackSupplied => Cardinality(CallbackCalls) = 1
    /\ QueryOrFetchRaised => CallbackCalls = {}
    /\ ppc \in {"query", "convert", "fetch", "metrics"} => CallbackCalls = {}
    /\ outcome.kind = "return" => PastCallback

\* C28 happens: a call with fetch_data=False and a callback has returned two
\* tiles; its log is the query, the conversion and the callback, which was
\* told 0 seconds of data fetch and 2 tiles.
C28_Witness ==
    /\ outcome.kind = "return"
    /\ Len(outcome.tiles) = 2
    /\ FetchCalls = {}
    /\ CallbackSupplied
    /\ Len(log) >= 3
    /\ log[3].op = "metrics_callback"
    /\ log[3].cassandra = 0
    /\ log[3].num_tiles = 2

\* the call was made with the default range start_time=0, end_time=-1
DefaultRange == call.start_time = 0 /\ call.end_time = -1

\* the positions of the log at which the time-range mask was applied
TimeMaskCalls == {k \in 1..Len(log) : log[k].op = "mask_tiles_to_time_range"}

\* C29: a call of get_tiles_by_metadata that returns has applied the
\* time-range mask exactly once, as its last step and as its only mask,
\* whatever the range, the default range (0, -1) included; a call of
\* get_tiles_bounded_by_box or get_tiles_bounded_by_polygon that returns with
\* the default range has not applied it; and no call of get_tiles_by_metadata
\* gets from the find to its end other than through line 266.
C29_MetadataAlwaysTimeMasked ==
    /\ (call.api \in MetadataApis /\ ppc = "done" /\ outcome.kind = "return") =>
          /\ Cardinality(TimeMaskCalls) = 1
          /\ Len(log) \in TimeMaskCalls
          /\ MaskCalls({"mask_tiles_to_bbox", "mask_tiles_to_polygon",
                        "mask_tiles_to_bbox_and_time", "mask_tiles_to_polygon_and_time"}) = 0
    /\ (call.api \in BoxRangeApis \cup PolygonRangeApis /\ DefaultRange
           /\ ppc = "done" /\ outcome.kind = "return") =>
          TimeMaskCalls = {}
    /\ (call.api \in MetadataApis /\ ppc = "done" /\ TimeMaskCalls = {}) =>
          outcome.kind = "raise"

\* C29 happens: get_tiles_by_metadata was called with the default range, its
\* tiles were fetched and the call has returned them after the time-range mask.
C29_Witness ==
    /\ call.api \in MetadataApis
    /\ DefaultRange
    /\ ppc = "done"
    /\ outcome.kind = "return"
    /\ Len(outcome.tiles) > 0
    /\ FetchCalls # {}
    /\ TimeMaskCalls # {}

\* the 'results' of the pages read so far, one after the other
RECURSIVE ConcatResults(_)
ConcatResults(ps) ==
    IF ps = <<>> THEN <<>>
    ELSE ConcatResults(SubSeq(ps, 1, Len(ps) - 1)) \o ps[Len(ps)]["results"]

\* the 'next' of a page says that there is no further page
LastPage(page) == DictGet(page, "next") \in {PyNone, NA}

\* C30, what holds in every state: the first request goes to the configured
\* endpoint with the parameters and every later one to the 'next' of the page
\* before it with no parameters; a further request is made only when that
\* 'next' is a URL; between two passes of the loop insitu_response is the
\* first page with the results of all pages read appended in page order;
\* that is what the query returns, and it returns only when the last page
\* read has no 'next' or 'NA'; a timeout gives NexusProcessingException with
\* code 504 and nothing else, however many pages were read before.
C30_PagingInvariant ==
    /\ Len(pages) <= Len(requests)
    /\ \A k \in 1..Len(requests) :
          /\ requests[k].params = (IF k = 1 THEN FirstParams(icall) ELSE EmptyDict)
          /\ k > 1 => /\ k - 1 <= Len(pages)
                      /\ ~LastPage(pages[k - 1])
                      /\ requests[k].url = pages[k - 1]["next"]
          /\ requests[k].url \in Urls
    /\ (ipc \in {"loop", "done"} /\ pages # <<>>) =>
          /\ DOMAIN insitu_response = DOMAIN pages[1]
          /\ insitu_response["results"] = ConcatResults(pages)
          /\ "next" \in DOMAIN pages[1] => insitu_response["next"] = pages[1]["next"]
          /\ next_page_url = DictGet(pages[Len(pages)], "next")
    /\ (ipc = "done" /\ insitu_outcome.kind = "return") =>
          /\ pages # <<>>
          /\ Len(requests) = Len(pages)
          /\ LastPage(pages[Len(pages)])
          /\ insitu_outcome.value = insitu_response
    /\ (ipc = "done" /\ Len(requests) > Len(pages)) =>
          /\ insitu_outcome \in {InsituTimedOut, HTTPError}
          /\ insitu_outcome = InsituTimedOut => insitu_outcome.code = 504
          /\ "value" \notin DOMAIN insitu_outcome

\* the loop condition of line 90 has just become false
PagingOver == ipc = "loop" /\ ~MorePages

\* C30: query_insitu requests page after page, the parameters with the first
\* request only, following the 'next' links and appending the results in page
\* order to the first page's response; when a page has no 'next' or the
\* 'next' 'NA' the loop is over and the call ends; a timeout of any request
\* ends the call with NexusProcessingException code 504 and no result.
C30_InsituPaging == []C30_PagingInvariant /\ (PagingOver ~> ipc = "done")

\* C30 happens: the query was made with a variable, the first page gave "a"
\* and the URL of a second page, the second gave "b" and the 'next' 'NA', and
\* the call has returned the first page's response with results "a", "b".
C30_Witness ==
    /\ ipc = "done"
    /\ insitu_outcome.kind = "return"
    /\ Len(pages) = 2
    /\ "variable" \in DOMAIN requests[1].params
    /\ requests[2].params = EmptyDict
    /\ pages[1]["results"] = <<"a">>
    /\ pages[2]["results"] = <<"b">>
    /\ DictGet(pages[2], "next") = NA
    /\ insitu_outcome.value["results"] = <<"a", "b">>
    /\ insitu_outcome.value["next"] = pages[1]["next"]
====
